---- MODULE Spec2Model ----
(***************************************************************************)
(* Model of scripts/list_pubs.py: the sanitizer clean_and_parse, the       *)
(* renderer render_pubs, and the page-context discovery                    *)
(* get_current_page_title / render_auto.                                   *)
(*                                                                         *)
(* Python strings are modelled as sequences of one-character strings, so   *)
(* that strip, lower, startswith, split, replace and string comparison are *)
(* computed the way the interpreter computes them.                         *)
(***************************************************************************)
EXTENDS Integers, Sequences, FiniteSets, TLC

VARIABLES
    lines,            \* clean_and_parse: f.readlines()
    i,                \* clean_and_parse: position of the for loop; render_auto: position in bib_files
    cleaned_lines,    \* clean_and_parse: cleaned_lines
    seen_fields,      \* clean_and_parse: seen_fields
    inside_entry,     \* clean_and_parse: inside_entry
    bib_file,         \* render_pubs: the file named by the bib_file argument
    author_highlight, \* render_pubs: author_highlight argument
    qmd_files,        \* render_auto: the *.qmd files of the working directory, in glob order
    dir_bibs,         \* render_auto: the *.bib files of the working directory, in glob order
    clean_name,       \* render_auto: clean_name
    bib_files,        \* render_auto: bib_files
    calls,            \* render_auto: the render_pubs calls made so far, <<file, highlight>>
    out,              \* standard output: the sequence of printed lines
    pc                \* position of the running function

vars == <<lines, i, cleaned_lines, seen_fields, inside_entry, bib_file,
          author_highlight, qmd_files, dir_bibs, clean_name, bib_files,
          calls, out, pc>>

(***************************************************************************)
(* Bounds                                                                  *)
(***************************************************************************)
MaxLines == 5       \* lines of a bibliography file given to clean_and_parse
MaxEntries == 2     \* entries of a parsed bibliography
MaxDoiPieces == 2   \* pieces a doi value is built from
MaxBibFiles == 2    \* *.bib files in the working directory
MaxQmdLines == 2    \* lines of the markup file

(***************************************************************************)
(* Python str operations                                                   *)
(***************************************************************************)
None == <<"None">>

LowerChar(c) ==
    CASE c = "D" -> "d"
      [] c = "O" -> "o"
      [] c = "I" -> "i"
      [] c = "B" -> "b"
      [] c = "K" -> "k"
      [] c = "T" -> "t"
      [] OTHER -> c

Lower(s) == [k \in 1..Len(s) |-> LowerChar(s[k])]

RECURSIVE LStripSet(_, _)
LStripSet(s, cs) ==
    IF s # <<>> /\ Head(s) \in cs THEN LStripSet(Tail(s), cs) ELSE s

RECURSIVE RStripSet(_, _)
RStripSet(s, cs) ==
    IF s # <<>> /\ s[Len(s)] \in cs THEN RStripSet(SubSeq(s, 1, Len(s) - 1), cs) ELSE s

\* str.strip(chars): every leading and every trailing character in chars is removed
StripChars(s, cs) == RStripSet(LStripSet(s, cs), cs)

\* str.strip()
Strip(s) == StripChars(s, {" ", "\t", "\n", "\r"})

StartsWith(s, p) == Len(s) >= Len(p) /\ SubSeq(s, 1, Len(p)) = p

\* c in s, for a single character c
HasChar(s, c) == \E k \in 1..Len(s) : s[k] = c

\* sub in s
HasSub(s, sub) ==
    \E k \in 0..(Len(s) - Len(sub)) : SubSeq(s, k + 1, k + Len(sub)) = sub

FirstIndex(s, c) ==
    IF HasChar(s, c) THEN CHOOSE k \in 1..Len(s) : s[k] = c /\ \A j \in 1..(k - 1) : s[j] # c
    ELSE 0

\* s.split(c)[0]
BeforeFirst(s, c) ==
    IF HasChar(s, c) THEN SubSeq(s, 1, FirstIndex(s, c) - 1) ELSE s

\* s.split(c, 1)[1]
AfterFirst(s, c) == SubSeq(s, FirstIndex(s, c) + 1, Len(s))

\* s.replace(p, ''): every non-overlapping occurrence of p, left to right
RECURSIVE Remove(_, _)
Remove(s, p) ==
    IF Len(s) < Len(p) THEN s
    ELSE IF SubSeq(s, 1, Len(p)) = p THEN Remove(SubSeq(s, Len(p) + 1, Len(s)), p)
    ELSE <<Head(s)>> \o Remove(Tail(s), p)

RECURSIVE Flatten(_)
Flatten(ss) == IF ss = <<>> THEN <<>> ELSE Head(ss) \o Flatten(Tail(ss))

SeqsUpTo(S, n) == UNION {[1..k -> S] : k \in 0..n}

(***************************************************************************)
(* clean_and_parse                                                         *)
(***************************************************************************)
LineAt == <<" ", "@", "B", "{", "\n">>
LineDoi1 == <<"d", "o", "i", "=", "1">>
LineDoi2 == <<" ", "D", "O", "I", " ", "=", "2", "\n">>
LineKey == <<"k", "=", "d", "o", "i">>
LineClose == <<"}">>
LinePlain == <<"d", "o", "i">>

LineSet == {LineAt, LineDoi1, LineDoi2, LineKey, LineClose, LinePlain}

Stripped(line) == Lower(Strip(line))

IsEntryStart(line) == StartsWith(Stripped(line), <<"@">>)

FieldPart(stripped) == Strip(BeforeFirst(stripped, "="))

DoiName == <<"d", "o", "i">>

\* lines 28-32: the line is a doi field line of an entry
IsDoiField(line, inside) ==
    inside /\ HasChar(Stripped(line), "=") /\ FieldPart(Stripped(line)) = DoiName

\* line 22: seen_fields at the start of a new entry
SeenKept(seen) == seen

SeenAtEntryStart(seen) == {}

InitClean ==
    /\ lines \in SeqsUpTo(LineSet, MaxLines)
    /\ i = 1
    /\ cleaned_lines = <<>>
    /\ seen_fields = {}
    /\ inside_entry = FALSE
    /\ bib_file = None
    /\ author_highlight = None
    /\ qmd_files = <<>>
    /\ dir_bibs = <<>>
    /\ clean_name = None
    /\ bib_files = <<>>
    /\ calls = <<>>
    /\ out = <<>>
    /\ pc = "clean"

renderVars == <<bib_file, author_highlight, qmd_files, dir_bibs, clean_name,
                bib_files, calls, out>>

\* lines 21-25
EntryStart ==
    /\ pc = "clean" /\ i <= Len(lines)
    /\ IsEntryStart(lines[i])
    /\ seen_fields' = SeenAtEntryStart(seen_fields)
    /\ inside_entry' = TRUE
    /\ cleaned_lines' = Append(cleaned_lines, lines[i])
    /\ i' = i + 1
    /\ UNCHANGED <<lines, pc>> /\ UNCHANGED renderVars

\* lines 28-34: a doi line of an entry that already had one is skipped
SkipDoi ==
    /\ pc = "clean" /\ i <= Len(lines)
    /\ ~IsEntryStart(lines[i])
    /\ IsDoiField(lines[i], inside_entry)
    /\ DoiName \in seen_fields
    /\ i' = i + 1
    /\ UNCHANGED <<lines, cleaned_lines, seen_fields, inside_entry, pc>>
    /\ UNCHANGED renderVars

\* lines 28-37: the first doi line of an entry is recorded and copied
CopyFirstDoi ==
    /\ pc = "clean" /\ i <= Len(lines)
    /\ ~IsEntryStart(lines[i])
    /\ IsDoiField(lines[i], inside_entry)
    /\ DoiName \notin seen_fields
    /\ seen_fields' = seen_fields \cup {DoiName}
    /\ cleaned_lines' = Append(cleaned_lines, lines[i])
    /\ i' = i + 1
    /\ UNCHANGED <<lines, inside_entry, pc>> /\ UNCHANGED renderVars

\* lines 28, 37: every other line is copied
CopyLine ==
    /\ pc = "clean" /\ i <= Len(lines)
    /\ ~IsEntryStart(lines[i])
    /\ ~IsDoiField(lines[i], inside_entry)
    /\ cleaned_lines' = Append(cleaned_lines, lines[i])
    /\ i' = i + 1
    /\ UNCHANGED <<lines, seen_fields, inside_entry, pc>> /\ UNCHANGED renderVars

\* line 39: the loop is over, the cleaned lines go to the parser
ParseCleaned ==
    /\ pc = "clean" /\ i > Len(lines)
    /\ pc' = "parsed"
    /\ UNCHANGED <<lines, i, cleaned_lines, seen_fields, inside_entry>>
    /\ UNCHANGED renderVars

NextClean == EntryStart \/ SkipDoi \/ CopyFirstDoi \/ CopyLine \/ ParseCleaned

SpecClean == InitClean /\ [][NextClean]_vars

(***************************************************************************)
(* Claims about clean_and_parse                                            *)
(***************************************************************************)
\* a line whose text before the first '=' is 'doi' after trimming and lowercasing
ClaimDoiLine(line) ==
    HasChar(line, "=") /\ Lower(Strip(BeforeFirst(line, "="))) = DoiName

ClaimAtLine(line) == LStripSet(line, {" ", "\t", "\n", "\r"}) # <<>>
                     /\ Head(LStripSet(line, {" ", "\t", "\n", "\r"})) = "@"

AtIdx(ls) == {k \in 1..Len(ls) : ClaimAtLine(ls[k])}

NthAt(ls, n) == CHOOSE k \in AtIdx(ls) : Cardinality({j \in AtIdx(ls) : j <= k}) = n

\* the n-th entry: the lines from the n-th '@' line up to the next '@' line
EntryLines(ls, n) ==
    SubSeq(ls, NthAt(ls, n),
           IF n < Cardinality(AtIdx(ls)) THEN NthAt(ls, n + 1) - 1 ELSE Len(ls))

DoiLinesIn(seg) == SelectSeq(seg, ClaimDoiLine)

\* C1: in every entry (from one '@' line up to the next) that has doi lines, the
\* cleaned text keeps exactly the first of them and drops every later one; the
\* first doi line of a later entry is kept although an earlier entry had one.
C1_FirstDoiKept ==
    pc = "parsed" =>
        /\ Cardinality(AtIdx(cleaned_lines)) = Cardinality(AtIdx(lines))
        /\ \A n \in 1..Cardinality(AtIdx(lines)) :
              LET d == DoiLinesIn(EntryLines(lines, n))
              IN  d # <<>> => DoiLinesIn(EntryLines(cleaned_lines, n)) = <<d[1]>>

\* an entry with two doi lines follows an entry that had a doi line
C1_Witness ==
    /\ pc = "parsed"
    /\ \E n \in 2..Cardinality(AtIdx(lines)) :
          /\ Len(DoiLinesIn(EntryLines(lines, n))) >= 2
          /\ DoiLinesIn(EntryLines(lines, n - 1)) # <<>>
    /\ Len(cleaned_lines) < Len(lines)

CountChar(s, c) == Cardinality({k \in 1..Len(s) : s[k] = c})

\* brace depth of the entry that is open after line k (0: no entry is open)
RECURSIVE DepthAfter(_, _)
DepthAfter(ls, k) ==
    IF k = 0 THEN 0
    ELSE LET d == CountChar(ls[k], "{") - CountChar(ls[k], "}")
             before == DepthAfter(ls, k - 1)
         IN  IF ClaimAtLine(ls[k]) THEN (IF d > 0 THEN d ELSE 0)
             ELSE IF before > 0 /\ before + d > 0 THEN before + d
             ELSE 0

\* line k lies inside an entry: an entry was started and has not ended before it
InsideAt(ls, k) == ~ClaimAtLine(ls[k]) /\ DepthAfter(ls, k - 1) > 0

LastAtBefore(ls, k) ==
    IF \E j \in AtIdx(ls) : j < k
    THEN CHOOSE j \in AtIdx(ls) : j < k /\ \A m \in AtIdx(ls) : m < k => m <= j
    ELSE 0

\* line k is a repeated doi field line of an entry
RepeatedDoi(ls, k) ==
    /\ ClaimDoiLine(ls[k]) /\ InsideAt(ls, k)
    /\ \E j \in (LastAtBefore(ls, k) + 1)..(k - 1) :
          ClaimDoiLine(ls[j]) /\ InsideAt(ls, j)

RECURSIVE KeepFrom(_, _)
KeepFrom(ls, k) ==
    IF k > Len(ls) THEN <<>>
    ELSE (IF RepeatedDoi(ls, k) THEN <<>> ELSE <<ls[k]>>) \o KeepFrom(ls, k + 1)

\* C7: every line that is not a repeated doi field line of an entry is copied
\* unchanged and in input order, also a 'doi = ...' line that lies before the
\* first entry or after an entry has ended.
C7_OtherLinesCopied ==
    pc = "parsed" => cleaned_lines = KeepFrom(lines, 1)

(***************************************************************************)
(* render_pubs                                                             *)
(***************************************************************************)
\* a parsed entry is [key, type, fields, persons]; fields maps the names of the
\* fields that are present to their values
Get(fields, name, default) == IF name \in DOMAIN fields THEN fields[name] ELSE default

\* characters in code point order, for the comparison of year strings
CodeOrder == <<"0", "1", "2", "3", "4", "5", "6", "7", "8", "9">>

Ord(c) == CHOOSE k \in 1..Len(CodeOrder) : CodeOrder[k] = c

\* a < b for Python str
RECURSIVE StrLess(_, _)
StrLess(a, b) ==
    IF b = <<>> THEN FALSE
    ELSE IF a = <<>> THEN TRUE
    ELSE IF Head(a) = Head(b) THEN StrLess(Tail(a), Tail(b))
    ELSE Ord(Head(a)) < Ord(Head(b))

Year0000 == <<"0", "0", "0", "0">>

\* line 62: the sort key
YearKeyNoDefault(entry) == Get(entry.fields, "year", <<"9">>)

YearKey(entry) == Get(entry.fields, "year", Year0000)

\* the place of x in a list sorted in descending order, after the elements
\* whose key is not less than x's (sorted() is stable, also with reverse=True)
InsertDesc(sorted, x) ==
    LET n == Cardinality({k \in 1..Len(sorted) : ~StrLess(YearKey(sorted[k]), YearKey(x))})
    IN  SubSeq(sorted, 1, n) \o <<x>> \o SubSeq(sorted, n + 1, Len(sorted))

RECURSIVE SortFrom(_, _, _)
SortFrom(entries, k, sorted) ==
    IF k > Len(entries) THEN sorted
    ELSE SortFrom(entries, k + 1, InsertDesc(sorted, entries[k]))

\* lines 61-63
SortedEntries(entries) == SortFrom(entries, 1, <<>>)

TArticle == <<"a", "r", "t", "i", "c", "l", "e">>
TInproceedings == <<"i", "n", "p", "r", "o", "c", "e", "e", "d", "i", "n", "g", "s">>
TProceedings == <<"p", "r", "o", "c", "e", "e", "d", "i", "n", "g", "s">>
TBook == <<"b", "o", "o", "k">>
TIncollection == <<"i", "n", "c", "o", "l", "l", "e", "c", "t", "i", "o", "n">>
TPhdthesis == <<"p", "h", "d", "t", "h", "e", "s", "i", "s">>
TMastersthesis == <<"m", "a", "s", "t", "e", "r", "s", "t", "h", "e", "s", "i", "s">>

CategoriesOverlapping ==
    << [name |-> "Journal Articles", types |-> {TArticle}],
       [name |-> "Conference Papers", types |-> {TInproceedings, TProceedings, TArticle}],
       [name |-> "Books and Chapters", types |-> {TBook, TIncollection}],
       [name |-> "Theses", types |-> {TPhdthesis, TMastersthesis}] >>

\* lines 53-58: the categories, in the order the dict iterates
Categories ==
    << [name |-> "Journal Articles", types |-> {TArticle}],
       [name |-> "Conference Papers", types |-> {TInproceedings, TProceedings}],
       [name |-> "Books and Chapters", types |-> {TBook, TIncollection}],
       [name |-> "Theses", types |-> {TPhdthesis, TMastersthesis}] >>

\* line 68
InCategory(entry, types) == Lower(entry.type) \in types

CatEntries(all_entries, types) ==
    SelectSeq(all_entries, LAMBDA e : InCategory(e, types))

NoDate == <<"n", ".", "d", ".">>
Untitled == <<"U", "n", "t", "i", "t", "l", "e", "d">>
Preprint == <<"P", "r", "e", "p", "r", "i", "n", "t">>

\* line 77
Title(fields) == Remove(Remove(Get(fields, "title", Untitled), <<"{">>), <<"}">>)

VenueSchoolFirst(fields) ==
    Get(fields, "school",
        Get(fields, "publisher",
            Get(fields, "booktitle",
                Get(fields, "journal", Preprint))))

\* lines 80-83
Venue(fields) ==
    Get(fields, "journal",
        Get(fields, "booktitle",
            Get(fields, "publisher",
                Get(fields, "school", Preprint))))

DoiUrl == <<"h", "t", "t", "p", "s", ":", "/", "/", "d", "o", "i", ".", "o", "r", "g", "/">>
LinkOpen == <<" ", "[", "[", "L", "i", "n", "k", "]", "(">>
LinkClose == <<")", "]">>

\* lines 85-86
DoiStr(fields) ==
    LET doi == Get(fields, "doi", <<>>)
    IN  IF doi # <<>> THEN LinkOpen \o DoiUrl \o Remove(doi, DoiUrl) \o LinkClose
        ELSE <<>>

FirstOrEmpty(names) == IF names # <<>> THEN names[1] ELSE <<>>

\* lines 92-97
AuthorName(person, highlight) ==
    LET name == Strip(FirstOrEmpty(person.first_names) \o <<" ">>
                      \o FirstOrEmpty(person.last_names))
    IN  IF highlight # None /\ highlight # <<>> /\ HasSub(name, highlight)
        THEN <<"*", "*">> \o name \o <<"*", "*">>
        ELSE name

\* line 100: ", ".join(authors)
RECURSIVE JoinAuthors(_, _)
JoinAuthors(persons, highlight) ==
    IF persons = <<>> THEN <<>>
    ELSE IF Len(persons) = 1 THEN AuthorName(persons[1], highlight)
    ELSE AuthorName(persons[1], highlight) \o <<",", " ">>
         \o JoinAuthors(Tail(persons), highlight)

\* line 103: "1. {author_str} ({year}). **{title}.** *{venue}*.{doi_str}"
EntryLine(entry, highlight) ==
    [kind |-> "entry",
     author_str |-> JoinAuthors(entry.persons, highlight),
     year |-> Get(entry.fields, "year", NoDate),
     title |-> Title(entry.fields),
     venue |-> Venue(entry.fields),
     doi_str |-> DoiStr(entry.fields)]

\* line 73: "### {cat_name}"
Heading(cat_name) == [kind |-> "heading", cat_name |-> cat_name]

\* line 104
Blank == [kind |-> "blank"]

CategoryLinesAlways(cat, all_entries, highlight) ==
    LET cat_entries == CatEntries(all_entries, cat.types)
    IN  <<Heading(cat.name)>>
        \o [k \in 1..Len(cat_entries) |-> EntryLine(cat_entries[k], highlight)]
        \o <<Blank>>

\* lines 66-104, one iteration of the loop over the categories
CategoryLines(cat, all_entries, highlight) ==
    LET cat_entries == CatEntries(all_entries, cat.types)
    IN  IF cat_entries = <<>> THEN <<>>
        ELSE <<Heading(cat.name)>>
             \o [k \in 1..Len(cat_entries) |-> EntryLine(cat_entries[k], highlight)]
             \o <<Blank>>

RECURSIVE PrintCategories(_, _, _)
PrintCategories(cats, all_entries, highlight) ==
    IF cats = <<>> THEN <<>>
    ELSE CategoryLines(Head(cats), all_entries, highlight)
         \o PrintCategories(Tail(cats), all_entries, highlight)

\* line 43
ErrorMissing(file) == [kind |-> "error", text |-> "**Error:** Could not find bibliography file: ", arg |-> file.name]

\* line 49; the exception is the one open() or parse_string raised
ErrorParsing(file) == [kind |-> "error", text |-> "**Error parsing bib file:** ", arg |-> file.problem]

\* lines 41-104: what render_pubs prints for a file. A file is
\* [name, exists, problem, entries]: problem is "" when open() and parse_string
\* succeed, and names the exception otherwise; entries is what parse_string returns
RenderPubs(file, highlight) ==
    IF ~file.exists THEN <<ErrorMissing(file)>>
    ELSE IF file.problem # "" THEN <<ErrorParsing(file)>>
    ELSE PrintCategories(Categories, SortedEntries(file.entries), highlight)

(***************************************************************************)
(* The bibliographies and files render_pubs is run on                      *)
(***************************************************************************)
\* a field that may be absent: <<>> when absent, <<value>> when present
FieldsOf(opts) ==
    [n \in {m \in DOMAIN opts : opts[m] # <<>>} |-> opts[n][1]]

Letters == <<"a", "b", "c", "d", "e", "f">>

Y2020 == <<"2", "0", "2", "0">>
Y2019 == <<"2", "0", "1", "9">>
YearOpts == {<<>>, <<<<>>>>, <<Y2020>>, <<Y2019>>}

TBookCap == <<"B", "o", "o", "k">>
TMisc == <<"m", "i", "s", "c">>
TypeSet == {TArticle, TInproceedings, TBookCap, TPhdthesis, TMisc}

\* the k-th entry of a bibliography; its key and title are its own
GroupEntry(k, type, yearOpt) ==
    [key |-> <<Letters[k]>>,
     type |-> type,
     fields |-> FieldsOf([title |-> <<<<"{", Letters[k], "}">>>>, year |-> yearOpt]),
     persons |-> <<>>]

GroupChoices == SeqsUpTo(TypeSet \X YearOpts, MaxEntries)

GroupEntries(c) == [k \in 1..Len(c) |-> GroupEntry(k, c[k][1], c[k][2])]

DoiPieces == {DoiUrl, <<"1", "0">>, <<"/", "x">>}
DoiValues == {Flatten(p) : p \in SeqsUpTo(DoiPieces, MaxDoiPieces)}
DoiOpts == {<<>>} \cup {<<d>> : d \in DoiValues}

Jane == <<"J", "a", "n", "e">>
Doe == <<"D", "o", "e">>
Al == <<"A", "l">>
PersonsSet ==
    { <<>>,
      <<[first_names |-> <<Jane>>, last_names |-> <<Doe>>]>>,
      <<[first_names |-> <<>>, last_names |-> <<Doe>>],
        [first_names |-> <<Al, Jane>>, last_names |-> <<>>]>> }
Highlights == {None, Doe, <<>>}

FieldChoices ==
    [journal : {<<>>, <<<<"J">>>>, <<<<>>>>},
     booktitle : {<<>>, <<<<"B">>>>},
     publisher : {<<>>, <<<<"P">>>>},
     school : {<<>>, <<<<"S">>>>},
     doi : DoiOpts,
     title : {<<>>, <<<<"A", " ", "{", "S", "}">>>>},
     year : {<<>>, <<Y2020>>},
     persons : PersonsSet]

FieldEntry(c) ==
    [key |-> <<"k">>,
     type |-> TArticle,
     fields |-> FieldsOf([journal |-> c.journal, booktitle |-> c.booktitle,
                          publisher |-> c.publisher, school |-> c.school,
                          doi |-> c.doi, title |-> c.title, year |-> c.year]),
     persons |-> c.persons]

ParsedFile(name, entries) ==
    [name |-> name, exists |-> TRUE, problem |-> "", entries |-> entries]

\* a name the glob or the caller gives that os.path.exists denies (a dangling link)
MissingFile(name) ==
    [name |-> name, exists |-> FALSE, problem |-> "", entries |-> <<>>]

\* open() or the decoding fails in clean_and_parse
UnreadableFile(name) ==
    [name |-> name, exists |-> TRUE, problem |-> "PermissionError", entries |-> <<>>]

\* parse_string rejects the cleaned text
MalformedFile(name) ==
    [name |-> name, exists |-> TRUE, problem |-> "PybtexSyntaxError", entries |-> <<>>]

cleanVars == <<lines, i, cleaned_lines, seen_fields, inside_entry>>
autoVars == <<qmd_files, dir_bibs, clean_name, bib_files, calls>>

InitRender ==
    /\ lines = <<>> /\ i = 1 /\ cleaned_lines = <<>> /\ seen_fields = {}
    /\ inside_entry = FALSE
    /\ qmd_files = <<>> /\ dir_bibs = <<>> /\ clean_name = None
    /\ bib_files = <<>> /\ calls = <<>>
    /\ out = <<>>
    /\ pc = "render_pubs"
    /\ \/ \E c \in GroupChoices :
            /\ bib_file = ParsedFile("refs.bib", GroupEntries(c))
            /\ author_highlight = None
       \/ \E c \in FieldChoices, h \in Highlights :
            /\ bib_file = ParsedFile("refs.bib", <<FieldEntry(c)>>)
            /\ author_highlight = h
       \/ /\ bib_file \in {MissingFile("refs.bib"), UnreadableFile("refs.bib"),
                           MalformedFile("refs.bib")}
          /\ author_highlight \in Highlights

\* lines 42-44
RenderMissing ==
    /\ pc = "render_pubs"
    /\ ~bib_file.exists
    /\ out' = out \o RenderPubs(bib_file, author_highlight)
    /\ pc' = "rendered"
    /\ UNCHANGED <<bib_file, author_highlight>>
    /\ UNCHANGED cleanVars /\ UNCHANGED autoVars

\* lines 46-50
RenderParseError ==
    /\ pc = "render_pubs"
    /\ bib_file.exists /\ bib_file.problem # ""
    /\ out' = out \o RenderPubs(bib_file, author_highlight)
    /\ pc' = "rendered"
    /\ UNCHANGED <<bib_file, author_highlight>>
    /\ UNCHANGED cleanVars /\ UNCHANGED autoVars

\* lines 52-104
RenderEntries ==
    /\ pc = "render_pubs"
    /\ bib_file.exists /\ bib_file.problem = ""
    /\ out' = out \o RenderPubs(bib_file, author_highlight)
    /\ pc' = "rendered"
    /\ UNCHANGED <<bib_file, author_highlight>>
    /\ UNCHANGED cleanVars /\ UNCHANGED autoVars

NextRender == RenderMissing \/ RenderParseError \/ RenderEntries

SpecRender == InitRender /\ [][NextRender]_vars

(***************************************************************************)
(* Claims about render_pubs                                                *)
(***************************************************************************)
Rendered == pc = "rendered" /\ bib_file.exists /\ bib_file.problem = ""

\* the accepted type tags of each category, by heading
Accepted ==
    [c \in {"Journal Articles", "Conference Papers", "Books and Chapters", "Theses"} |->
        CASE c = "Journal Articles" -> {TArticle}
          [] c = "Conference Papers" -> {TInproceedings, TProceedings}
          [] c = "Books and Chapters" -> {TBook, TIncollection}
          [] c = "Theses" -> {TPhdthesis, TMastersthesis}]

HeadingOrder == <<"Journal Articles", "Conference Papers", "Books and Chapters", "Theses">>

CategoriesOf(entry) == {c \in DOMAIN Accepted : Lower(entry.type) \in Accepted[c]}

\* the title an entry is printed with; the entries of a bibliography the model
\* runs on have titles of their own, so the title tells which entry a line prints
PrintedTitle(entry) ==
    IF "title" \in DOMAIN entry.fields
    THEN SelectSeq(entry.fields["title"], LAMBDA ch : ch \notin {"{", "}"})
    ELSE Untitled

LinesOf(entry) ==
    {k \in 1..Len(out) : out[k].kind = "entry" /\ out[k].title = PrintedTitle(entry)}

HeadingsAt(c) == {k \in 1..Len(out) : out[k].kind = "heading" /\ out[k].cat_name = c}

\* the heading a printed line stands under: the last heading printed before it
HeadingOver(k) ==
    LET hs == {j \in 1..(k - 1) : out[j].kind = "heading"}
    IN  IF hs = {} THEN "" ELSE out[CHOOSE j \in hs : \A m \in hs : m <= j].cat_name

EntrySet == {bib_file.entries[k] : k \in 1..Len(bib_file.entries)}

\* C2: an entry whose lowercased type tag is in a category's accepted set is
\* printed exactly once, under the heading of that category and no other; an
\* entry whose type tag is in no category's set is printed nowhere.
C2_GroupedOnce ==
    Rendered =>
        \A e \in EntrySet :
            IF CategoriesOf(e) = {} THEN LinesOf(e) = {}
            ELSE /\ Cardinality(LinesOf(e)) = 1
                 /\ \A k \in LinesOf(e) : CategoriesOf(e) = {HeadingOver(k)}

\* a book, its type tag written "Book", and an entry of no category were
\* rendered: one entry line is printed, under Books and Chapters
C2_Witness ==
    /\ Rendered
    /\ \E e1, e2 \in EntrySet :
          /\ e1.type = TBookCap
          /\ CategoriesOf(e2) = {}
          /\ \E k \in LinesOf(e1) : HeadingOver(k) = "Books and Chapters"
    /\ Cardinality({k \in 1..Len(out) : out[k].kind = "entry"}) = 1

ClaimYearKey(entry) ==
    IF "year" \in DOMAIN entry.fields THEN entry.fields["year"] ELSE Year0000

PrintedYearKey(line) == IF line.year = NoDate THEN Year0000 ELSE line.year

SameBlock(k, m) ==
    /\ out[k].kind = "entry" /\ out[m].kind = "entry"
    /\ HeadingOver(k) = HeadingOver(m)

\* the order of the whole sorted sequence and of the lines under each heading
YearsDescending ==
    /\ LET s == SortedEntries(bib_file.entries)
       IN  \A k, m \in 1..Len(s) :
              k < m => ~StrLess(ClaimYearKey(s[k]), ClaimYearKey(s[m]))
    /\ \A k, m \in 1..Len(out) :
          (k < m /\ SameBlock(k, m)) => ~StrLess(PrintedYearKey(out[k]), PrintedYearKey(out[m]))

\* C3 as stated: the sorted sequence and the lines under each heading are
\* non-increasing in the year string, a missing year counting as "0000", and an
\* entry without a year comes after every entry that has a year.
C3_YearlessLast ==
    Rendered =>
        /\ YearsDescending
        /\ LET s == SortedEntries(bib_file.entries)
           IN  \A k, m \in 1..Len(s) :
                  ("year" \notin DOMAIN s[k].fields /\ "year" \in DOMAIN s[m].fields)
                      => m < k

\* C3 as amended: the sorted sequence and the lines under each heading are
\* non-increasing in the year string, a missing year counting as "0000"; an
\* entry without a year comes after every entry whose year string is greater
\* than "0000".
C3_YearsDescending ==
    Rendered =>
        /\ YearsDescending
        /\ LET s == SortedEntries(bib_file.entries)
           IN  \A k, m \in 1..Len(s) :
                  (/\ "year" \notin DOMAIN s[k].fields
                   /\ "year" \in DOMAIN s[m].fields
                   /\ StrLess(Year0000, s[m].fields["year"]))
                      => m < k

\* an entry without a year was given before a dated entry of the same category
\* and is printed after it
C3_Witness ==
    /\ Rendered
    /\ Len(bib_file.entries) >= 2
    /\ "year" \notin DOMAIN bib_file.entries[1].fields
    /\ "year" \in DOMAIN bib_file.entries[2].fields
    /\ StrLess(Year0000, bib_file.entries[2].fields["year"])
    /\ \E k, m \in 1..Len(out) :
          /\ k < m /\ SameBlock(k, m)
          /\ out[k].title = PrintedTitle(bib_file.entries[2])
          /\ out[m].title = PrintedTitle(bib_file.entries[1])

LinkTarget(doi_str) == SubSeq(doi_str, Len(LinkOpen) + 1, Len(doi_str) - Len(LinkClose))

\* d with the prefix "https://doi.org/" removed when d begins with it
WithoutPrefix(d) ==
    IF Len(d) >= Len(DoiUrl) /\ SubSeq(d, 1, Len(DoiUrl)) = DoiUrl
    THEN SubSeq(d, Len(DoiUrl) + 1, Len(d))
    ELSE d

\* C6: for a non-empty doi d the link target is "https://doi.org/" followed by d
\* without that prefix when d begins with it and by d unchanged otherwise; for
\* an absent or empty doi no link segment is printed.
C6_DoiLink ==
    Rendered =>
        \A e \in EntrySet : \A k \in LinesOf(e) :
            LET d == IF "doi" \in DOMAIN e.fields THEN e.fields["doi"] ELSE <<>>
            IN  IF d = <<>> THEN out[k].doi_str = <<>>
                ELSE /\ out[k].doi_str # <<>>
                     /\ LinkTarget(out[k].doi_str) = DoiUrl \o WithoutPrefix(d)

ClaimVenue(fields) ==
    IF "journal" \in DOMAIN fields THEN fields["journal"]
    ELSE IF "booktitle" \in DOMAIN fields THEN fields["booktitle"]
    ELSE IF "publisher" \in DOMAIN fields THEN fields["publisher"]
    ELSE IF "school" \in DOMAIN fields THEN fields["school"]
    ELSE Preprint

\* C8: the printed venue is the value of the first field present among journal,
\* booktitle, publisher, school, in that order, and "Preprint" when none is.
C8_Venue ==
    Rendered =>
        \A e \in EntrySet : \A k \in LinesOf(e) : out[k].venue = ClaimVenue(e.fields)

\* an entry without journal, with booktitle and school, was printed
C8_Witness ==
    /\ Rendered
    /\ \E e \in EntrySet :
          /\ "journal" \notin DOMAIN e.fields
          /\ {"booktitle", "school"} \subseteq DOMAIN e.fields
          /\ \E k \in LinesOf(e) : out[k].venue = e.fields["booktitle"]

\* C10: a category heading is printed if and only if an entry's lowercased type
\* tag is in the category's accepted set; a printed heading appears once, the
\* headings appear in the order Journal Articles, Conference Papers, Books and
\* Chapters, Theses, and each stands before all entry lines of its category.
C10_Headings ==
    Rendered =>
        /\ \A c \in DOMAIN Accepted :
              Cardinality(HeadingsAt(c)) =
                  (IF \E e \in EntrySet : c \in CategoriesOf(e) THEN 1 ELSE 0)
        /\ \A a, b \in 1..Len(HeadingOrder) :
              a < b => \A k \in HeadingsAt(HeadingOrder[a]) :
                          \A m \in HeadingsAt(HeadingOrder[b]) : k < m
        /\ \A e \in EntrySet : \A c \in CategoriesOf(e) :
              \A m \in LinesOf(e) : \E k \in HeadingsAt(c) : k < m
        /\ \A k \in 1..Len(out) : out[k].kind = "heading" => out[k].cat_name \in DOMAIN Accepted

\* a book was given before an article: two headings are printed, Journal
\* Articles first, and no heading of a category without entries
C10_Witness ==
    /\ Rendered
    /\ Len(bib_file.entries) >= 2
    /\ Lower(bib_file.entries[1].type) = TBook
    /\ \E e \in EntrySet : Lower(e.type) = TArticle
    /\ HeadingsAt("Journal Articles") # {} /\ HeadingsAt("Books and Chapters") # {}
    /\ HeadingsAt("Theses") = {}

(***************************************************************************)
(* get_current_page_title and render_auto                                  *)
(***************************************************************************)
TitleColon == <<"t", "i", "t", "l", "e", ":">>

\* line 113
TitleValue(line) ==
    StripChars(StripChars(Strip(AfterFirst(line, ":")), {"\""}), {"'"})

RECURSIVE TitleFrom(_, _)
TitleFrom(ls, k) ==
    IF k > Len(ls) THEN None
    ELSE IF StartsWith(Strip(ls[k]), TitleColon) THEN TitleValue(ls[k])
    ELSE TitleFrom(ls, k + 1)

\* lines 110-114, for a file that open() can read
TitleOfFile(file) == TitleFrom(file.lines, 1)

QLinePlain == <<"t", "i", "t", "l", "e", ":", " ", "D", "o", "e", "\n">>
QLineQuoted == <<" ", "t", "i", "t", "l", "e", ":", " ", "\"", "A", "l", "\"", "\n">>
QLineDouble == <<"t", "i", "t", "l", "e", ":", " ", "\"", "\"", "D", "o", "e", "\"", "\"">>
QLineMixed == <<"t", "i", "t", "l", "e", ":", "'", "\"", "A", "l", "\"", "'">>
QLineColon == <<"t", "i", "t", "l", "e", ":", "a", ":", "b">>
QLineOther == <<"x", ":", " ", "t", "i", "t", "l", "e", ":", " ", "D", "o", "e">>

QmdLineSet == {QLinePlain, QLineQuoted, QLineDouble, QLineMixed, QLineColon, QLineOther}

\* a markup file is [readable, lines]; open() or the decoding of an unreadable
\* one raises
QmdFileSet ==
    {[readable |-> FALSE, lines |-> <<>>]}
    \cup {[readable |-> TRUE, lines |-> ls] : ls \in SeqsUpTo(QmdLineSet, MaxQmdLines)}

OtherQmd == [readable |-> TRUE, lines |-> <<QLinePlain>>]

\* the results glob.glob("*.qmd") can give; only the first file is read
QmdDirs == {<<>>} \cup {<<f>> : f \in QmdFileSet} \cup {<<f, OtherQmd>> : f \in QmdFileSet}

BibNames == <<"a.bib", "b.bib", "c.bib", "d.bib">>

BibKinds == {"missing", "unreadable", "malformed", "empty", "article"}

JaneArticle ==
    [key |-> <<"k">>,
     type |-> TArticle,
     fields |-> FieldsOf([year |-> <<Y2020>>, journal |-> <<<<"J">>>>]),
     persons |-> <<[first_names |-> <<Jane>>, last_names |-> <<Doe>>]>>]

BibOfKind(name, kind) ==
    CASE kind = "missing" -> MissingFile(name)
      [] kind = "unreadable" -> UnreadableFile(name)
      [] kind = "malformed" -> MalformedFile(name)
      [] kind = "empty" -> ParsedFile(name, <<>>)
      [] kind = "article" -> ParsedFile(name, <<JaneArticle>>)

InitAuto ==
    /\ lines = <<>> /\ cleaned_lines = <<>> /\ seen_fields = {}
    /\ inside_entry = FALSE
    /\ bib_file = None /\ author_highlight = None
    /\ qmd_files \in QmdDirs
    /\ \E c \in SeqsUpTo(BibKinds, MaxBibFiles) :
          dir_bibs = [k \in 1..Len(c) |-> BibOfKind(BibNames[k], c[k])]
    /\ clean_name = None
    /\ bib_files = <<>>
    /\ calls = <<>>
    /\ i = 1
    /\ out = <<>>
    /\ pc = "render_auto"

autoFrame == <<lines, cleaned_lines, seen_fields, inside_entry, bib_file,
               author_highlight, qmd_files, dir_bibs>>

\* lines 107-108: no markup file
TitleNoFile ==
    /\ pc = "render_auto"
    /\ qmd_files = <<>>
    /\ clean_name' = None
    /\ pc' = "glob"
    /\ UNCHANGED <<bib_files, calls, i, out>> /\ UNCHANGED autoFrame

\* lines 109-110: open() raises; neither get_current_page_title nor render_auto
\* handles it
TitleUnreadable ==
    /\ pc = "render_auto"
    /\ qmd_files # <<>> /\ ~qmd_files[1].readable
    /\ pc' = "raised"
    /\ UNCHANGED <<clean_name, bib_files, calls, i, out>> /\ UNCHANGED autoFrame

\* lines 109-114, 117
TitleRead ==
    /\ pc = "render_auto"
    /\ qmd_files # <<>> /\ qmd_files[1].readable
    /\ clean_name' = TitleOfFile(qmd_files[1])
    /\ pc' = "glob"
    /\ UNCHANGED <<bib_files, calls, i, out>> /\ UNCHANGED autoFrame

\* line 120
NoBibliography == [kind |-> "info", text |-> "*No bibliography found in this folder.*"]

\* lines 118-121
GlobNone ==
    /\ pc = "glob"
    /\ dir_bibs = <<>>
    /\ bib_files' = dir_bibs
    /\ out' = Append(out, NoBibliography)
    /\ pc' = "returned"
    /\ UNCHANGED <<clean_name, calls, i>> /\ UNCHANGED autoFrame

\* lines 118-119, 122
GlobSome ==
    /\ pc = "glob"
    /\ dir_bibs # <<>>
    /\ bib_files' = dir_bibs
    /\ i' = 1
    /\ pc' = "loop"
    /\ UNCHANGED <<clean_name, calls, out>> /\ UNCHANGED autoFrame

RaisesOnFailure(file) == file.exists /\ file.problem = ""

\* lines 42-50: render_pubs returns to its caller on every path; the missing
\* file is reported, and every exception of clean_and_parse is caught
ReturnsNormally(file) == TRUE

\* line 123
RenderNext ==
    /\ pc = "loop" /\ i <= Len(bib_files)
    /\ calls' = Append(calls, [file |-> bib_files[i].name,
                               highlight |-> clean_name,
                               printed |-> RenderPubs(bib_files[i], clean_name)])
    /\ out' = out \o RenderPubs(bib_files[i], clean_name)
    /\ i' = i + 1
    /\ pc' = IF ReturnsNormally(bib_files[i]) THEN "loop" ELSE "raised"
    /\ UNCHANGED <<clean_name, bib_files>> /\ UNCHANGED autoFrame

\* line 122: the list is exhausted
LoopEnd ==
    /\ pc = "loop" /\ i > Len(bib_files)
    /\ pc' = "returned"
    /\ UNCHANGED <<clean_name, bib_files, calls, i, out>> /\ UNCHANGED autoFrame

NextAuto ==
    \/ TitleNoFile \/ TitleUnreadable \/ TitleRead
    \/ GlobNone \/ GlobSome \/ RenderNext \/ LoopEnd

SpecAuto == InitAuto /\ [][NextAuto]_vars

(***************************************************************************)
(* Claims about get_current_page_title and render_auto                     *)
(***************************************************************************)
Failed(file) == ~file.exists \/ file.problem # ""

FileNamed(name) == CHOOSE f \in {dir_bibs[k] : k \in 1..Len(dir_bibs)} : f.name = name

\* C4: every failure in render_pubs and render_auto is non-fatal: whichever step
\* fails (bibliography missing or unreadable, parse failure, markup file
\* unreadable), the call prints a message and returns normally, never ending in
\* an unhandled failure, and prints no heading or entry line for the failed file.
C4_NonFatal ==
    /\ pc # "raised"
    /\ \A k \in 1..Len(calls) :
          Failed(FileNamed(calls[k].file)) =>
              /\ Len(calls[k].printed) = 1
              /\ calls[k].printed[1].kind = "error"

\* C5: every bibliography file the glob of render_auto finds is passed to
\* render_pubs exactly once, in the order found, with the discovered page title
\* as highlight; a missing file or a parse failure does not stop the rendering
\* of the files after it. (When title discovery raises, the glob is never run
\* and nothing is found.)
C5_EachFileRendered ==
    /\ pc \in {"loop", "returned", "raised"} => bib_files \in {<<>>, dir_bibs}
    /\ pc \in {"loop", "returned"} => bib_files = dir_bibs
    /\ pc \in {"returned", "raised"} =>
          /\ Len(calls) = Len(bib_files)
          /\ \A k \in 1..Len(bib_files) :
                /\ calls[k].file = bib_files[k].name
                /\ calls[k].highlight = clean_name
                /\ ~Failed(bib_files[k]) =>
                      \A m \in 1..Len(calls[k].printed) :
                          calls[k].printed[m].kind # "error"

\* a missing file came first and a file with an article second; the article is
\* printed after the error line, its author highlighted by the page title
C5_Witness ==
    /\ pc = "returned"
    /\ Len(bib_files) >= 2
    /\ ~bib_files[1].exists
    /\ bib_files[2].entries # <<>>
    /\ clean_name = Doe
    /\ \E k, m \in 1..Len(out) :
          /\ k < m
          /\ out[k].kind = "error"
          /\ out[m].kind = "entry"
          /\ out[m].author_str = <<"*", "*">> \o Jane \o <<" ">> \o Doe \o <<"*", "*">>

\* at most one character c removed from each end
StripOne(s, c) ==
    LET a == IF s # <<>> /\ Head(s) = c THEN Tail(s) ELSE s
    IN  IF a # <<>> /\ a[Len(a)] = c THEN SubSeq(a, 1, Len(a) - 1) ELSE a

TitleLines(ls) ==
    {k \in 1..Len(ls) : LET t == Strip(ls[k])
                        IN  Len(t) >= 6 /\ SubSeq(t, 1, 6) = TitleColon}

ClaimTitle ==
    IF qmd_files = <<>> \/ TitleLines(qmd_files[1].lines) = {} THEN None
    ELSE LET ls == qmd_files[1].lines
             k == CHOOSE j \in TitleLines(ls) : \A m \in TitleLines(ls) : j <= m
         IN  StripOne(StripOne(Strip(AfterFirst(ls[k], ":")), "\""), "'")

\* C9: get_current_page_title returns, for the first line whose trimmed content
\* starts with 'title:', the text after the first ':' trimmed and with at most
\* one quote character removed from each end; it returns no title when there
\* is no markup file or no such line.
C9_Title ==
    pc \in {"glob", "loop", "returned"} => clean_name = ClaimTitle

====
